---- MODULE Spec2Model ----
(***************************************************************************)
(* Multi-user todo service: JWT token service, the two authentication      *)
(* dependencies, the REST todo endpoints, the chat tool handlers and the   *)
(* chat / conversations endpoints.                                         *)
(*                                                                         *)
(* Four specifications share the variables:                                *)
(*   Spec      the todo store under REST and chat requests; the caller of  *)
(*             a request is the User that get_current_user returned.       *)
(*   SpecAuth  the token service and the authentication dependencies under *)
(*             issued, altered, forged and crafted bearer tokens, with a   *)
(*             clock that runs past the tokens' expiry.                    *)
(*   SpecSignup  the signup request schemas, the two password checks and   *)
(*             the user response schemas under signup requests.            *)
(*   SpecConc  two request sessions that mutate the same todo, each a      *)
(*             select followed by a commit, under every interleaving.      *)
(***************************************************************************)
EXTENDS Integers, Sequences, FiniteSets, TLC

VARIABLES
    todos,      \* the todos table: todo id -> row
    nextId,     \* the next fresh todo id (ids are never reused)
    convs,      \* the conversations table: conversation id -> owning user
    now,        \* the clock read by datetime.utcnow() / time.time()
    issued,     \* the tokens create_access_token has handed out
    users,      \* the users table: email -> stored row
    txs,        \* the request sessions in flight: request -> its session
    req,        \* the last request
    resp        \* the response to the last request

vars == <<todos, nextId, convs, now, issued, users, txs, req, resp>>



----------------------------------------------------------------------------
(* Bounds *)

MaxTodos == 2           \* todo ids ever allocated
MaxConvs == 1           \* conversation ids ever allocated
MaxClock == 1           \* last clock value of Spec
MaxAuthClock == 26      \* last clock value of SpecAuth (hours)
MaxTokens == 1          \* tokens held in `issued`

----------------------------------------------------------------------------
(* Values *)

None == "None"

Users == {"A", "B"}             \* ids of the stored users
GhostUser == "Z"                \* a well-formed user id with no stored user
UserIds == Users \cup {GhostUser}

Titles == {"t1", "t2"}          \* titles of length 1..255
LongTitle == "t256"             \* a title of 256 characters
Descs == {None, "d1"}           \* Optional[str] descriptions
OptTitles == Titles \cup {None}

(* Titles a request body may carry: no title, the empty string, the
   shortest and the longest title the schemas allow, and one character
   more. *)
BodyTitles == Titles \cup {None, "", LongTitle}

(* len(title) *)
len(title) ==
    CASE title = "" -> 0
      [] title = "t1" -> 1
      [] title = "t2" -> 255
      [] title = LongTitle -> 256

TodoIds == 1..MaxTodos
ReqIds == 1..(MaxTodos + 1)     \* ids a request may name; the last never exists
ConvIds == 1..MaxConvs

(* Optional[bool]: the empty set is None, {b} is the value b. *)
OptBools == {{}, {TRUE}, {FALSE}}

(* Strings that are handed to UUID(...).  str(uuid) produces the canonical
   lower-case form; UUID() also parses other spellings of the same id (upper
   case, braces, urn:uuid:) and raises ValueError on anything else. *)
UUIDForms == {"canon", "upper"}

str(u) == [form |-> "canon", id |-> u]

ParsesAsUUID(s) == s.form \in UUIDForms

UUID(s) == s.id

(* todo_id strings of the tool arguments: the canonical spelling of every
   id a request may name, another spelling of id 1, and a non-UUID. *)
TodoIdStrs ==
    {str(i) : i \in ReqIds}
        \cup {[form |-> "upper", id |-> 1], [form |-> "bad", id |-> 0]}

(* conversation_id of a ChatRequest: absent (None), the empty string,
   another non-UUID, or the spelling of a conversation id (the last never
   exists). *)
ConvIdStrs ==
    {str(i) : i \in 1..(MaxConvs + 1)}
        \cup {[form |-> "upper", id |-> 1], [form |-> "bad", id |-> 0],
              [form |-> "empty", id |-> 0], [form |-> "absent", id |-> 0]}

(* bool(s) of an Optional[str]: None and "" are falsy. *)
Truthy(s) == s.form \notin {"absent", "empty"}

----------------------------------------------------------------------------
(* Responses *)

(* HTTPException(status_code, detail=error_response(code, message)) *)
HttpError(status, code, message, db) ==
    [status |-> status, code |-> code, message |-> message,
     data |-> <<>>, tool |-> <<>>, db |-> db]

(* success_response(data, message) *)
HttpOk(status, message, data, db) ==
    [status |-> status, code |-> "", message |-> message,
     data |-> data, tool |-> <<>>, db |-> db]

NoResp == [status |-> 0, code |-> "", message |-> "",
           data |-> <<>>, tool |-> <<>>, db |-> <<>>]

NoReq == [ep |-> "none"]

----------------------------------------------------------------------------
(* The todos table *)

(* Todo(user_id, title, description): the row the model class builds; id is
   a fresh uuid, completed defaults to False and both timestamps to utcnow. *)
Todo(user_id, title, description, t) ==
    [user_id |-> user_id, title |-> title, description |-> description,
     completed |-> FALSE, created_at |-> t, updated_at |-> t]

Insert(store, id, row) ==
    [i \in DOMAIN store \cup {id} |-> IF i = id THEN row ELSE store[i]]

Remove(store, id) == [i \in DOMAIN store \ {id} |-> store[i]]

(* select(Todo).where(Todo.id == id).where(Todo.user_id == uid)
   .scalar_one_or_none(): the id of the row, or 0 for None. *)
SelectOwnedNoFilter(store, id, uid) ==
    IF id \in DOMAIN store THEN id ELSE 0

SelectOwned(store, id, uid) ==
    IF id \in DOMAIN store /\ store[id].user_id = uid THEN id ELSE 0

(* TodoResponse.model_validate(todo).model_dump() *)
TodoResponse(store, id) ==
    [id |-> id, user_id |-> store[id].user_id, title |-> store[id].title,
     description |-> store[id].description, completed |-> store[id].completed,
     created_at |-> store[id].created_at, updated_at |-> store[id].updated_at]

(* The orders a query with order_by(created_at.desc()) may return the rows
   `ids` in: every arrangement with created_at descending; rows with equal
   created_at come in an order the database chooses. *)
OrderedDesc(store, ids) ==
    {s \in [1..Cardinality(ids) -> ids] :
        /\ \A i, j \in DOMAIN s : i # j => s[i] # s[j]
        /\ \A i, j \in DOMAIN s :
              i < j => store[s[i]].created_at >= store[s[j]].created_at}

----------------------------------------------------------------------------
(* REST todo endpoints.  current_user is the id of the User returned by
   get_current_user, user_id the path parameter.  Each handler yields the
   response and the table it leaves behind; `db` lists the statements it
   ran against the todos table. *)

Out(r, store) == [resp |-> r, todos |-> store]

(* TodoCreate: title is required, Field(..., min_length=1, max_length=255);
   TRUE when the body validates.  The framework builds the object from the
   body before the endpoint function is entered. *)
TodoCreate_no_min_length(title) ==
    IF title = None THEN FALSE ELSE len(title) <= 255

TodoCreate(title) ==
    IF title = None THEN FALSE ELSE len(title) >= 1 /\ len(title) <= 255

(* TodoUpdate: title is Optional, Field(None, min_length=1, max_length=255) *)
TodoUpdate(title) ==
    IF title = None THEN TRUE ELSE len(title) >= 1 /\ len(title) <= 255

(* The response to a body that fails validation: the endpoint function does
   not run. *)
RequestValidationError ==
    HttpError(422, "", "validation error", <<>>)

create_todo(store, newId, current_user, user_id, title, description, t) ==
    IF current_user # user_id
    THEN Out(HttpError(403, "FORBIDDEN",
                       "You can only create todos for yourself", <<>>), store)
    ELSE LET store2 == Insert(store, newId,
                              Todo(current_user, title, description, t))
         IN Out(HttpOk(201, "Todo created successfully",
                       <<TodoResponse(store2, newId)>>, <<"insert", "commit">>),
                store2)

list_todos(store, current_user, user_id, order) ==
    IF current_user # user_id
    THEN Out(HttpError(403, "FORBIDDEN",
                       "You can only access your own todos", <<>>), store)
    ELSE Out(HttpOk(200, "Todos retrieved successfully",
                    [i \in DOMAIN order |-> TodoResponse(store, order[i])],
                    <<"select">>), store)

(* The rows list_todos selects: where(Todo.user_id == current_user.id) *)
list_todos_rows(store, current_user) ==
    {i \in DOMAIN store : store[i].user_id = current_user}

get_todo_owner_checked_late(store, current_user, user_id, id) ==
    IF current_user # user_id
    THEN Out(HttpError(403, "FORBIDDEN",
                       "You can only access your own todos", <<>>), store)
    ELSE IF id \notin DOMAIN store
    THEN Out(HttpError(404, "NOT_FOUND",
             "Todo not found or you don't have permission to access it",
             <<"select">>), store)
    ELSE IF store[id].user_id # current_user
    THEN Out(HttpError(403, "FORBIDDEN",
                       "You can only access your own todos", <<"select">>),
             store)
    ELSE Out(HttpOk(200, "Todo retrieved successfully",
                    <<TodoResponse(store, id)>>, <<"select">>), store)

get_todo(store, current_user, user_id, id) ==
    IF current_user # user_id
    THEN Out(HttpError(403, "FORBIDDEN",
                       "You can only access your own todos", <<>>), store)
    ELSE LET todo == SelectOwned(store, id, current_user) IN
         IF todo = 0
         THEN Out(HttpError(404, "NOT_FOUND",
                  "Todo not found or you don't have permission to access it",
                  <<"select">>), store)
         ELSE Out(HttpOk(200, "Todo retrieved successfully",
                         <<TodoResponse(store, todo)>>, <<"select">>), store)

update_todo_no_path_check(store, current_user, user_id, id, title, description, t) ==
    LET todo == SelectOwned(store, id, current_user) IN
    IF todo = 0
    THEN Out(HttpError(404, "NOT_FOUND",
             "Todo not found or you don't have permission to update it",
             <<"select">>), store)
    ELSE LET row == [store[todo] EXCEPT
                       !.title = IF title # None THEN title ELSE @,
                       !.description =
                           IF description # None THEN description ELSE @,
                       !.updated_at = t]
             store2 == [store EXCEPT ![todo] = row]
         IN Out(HttpOk(200, "Todo updated successfully",
                       <<TodoResponse(store2, todo)>>,
                       <<"select", "commit">>), store2)

update_todo(store, current_user, user_id, id, title, description, t) ==
    IF current_user # user_id
    THEN Out(HttpError(403, "FORBIDDEN",
                       "You can only update your own todos", <<>>), store)
    ELSE LET todo == SelectOwned(store, id, current_user) IN
         IF todo = 0
         THEN Out(HttpError(404, "NOT_FOUND",
                  "Todo not found or you don't have permission to update it",
                  <<"select">>), store)
         ELSE LET row == [store[todo] EXCEPT
                            !.title = IF title # None THEN title ELSE @,
                            !.description =
                                IF description # None THEN description ELSE @,
                            !.updated_at = t]
                  store2 == [store EXCEPT ![todo] = row]
              IN Out(HttpOk(200, "Todo updated successfully",
                            <<TodoResponse(store2, todo)>>,
                            <<"select", "commit">>), store2)

toggle_todo_completion_any_owner(store, current_user, user_id, id, t) ==
    IF current_user # user_id
    THEN Out(HttpError(403, "FORBIDDEN",
                       "You can only update your own todos", <<>>), store)
    ELSE LET todo == SelectOwnedNoFilter(store, id, current_user) IN
         IF todo = 0
         THEN Out(HttpError(404, "NOT_FOUND",
                  "Todo not found or you don't have permission to update it",
                  <<"select">>), store)
         ELSE LET row == [store[todo] EXCEPT
                            !.completed = ~@, !.updated_at = t]
                  store2 == [store EXCEPT ![todo] = row]
              IN Out(HttpOk(200, "Todo completion status updated",
                            <<TodoResponse(store2, todo)>>,
                            <<"select", "commit">>), store2)
toggle_todo_completion(store, current_user, user_id, id, t) ==
    IF current_user # user_id
    THEN Out(HttpError(403, "FORBIDDEN",
                       "You can only update your own todos", <<>>), store)
    ELSE LET todo == SelectOwned(store, id, current_user) IN
         IF todo = 0
         THEN Out(HttpError(404, "NOT_FOUND",
                  "Todo not found or you don't have permission to update it",
                  <<"select">>), store)
         ELSE LET row == [store[todo] EXCEPT
                            !.completed = ~@, !.updated_at = t]
                  store2 == [store EXCEPT ![todo] = row]
              IN Out(HttpOk(200, "Todo completion status updated",
                            <<TodoResponse(store2, todo)>>,
                            <<"select", "commit">>), store2)

delete_todo_keeps_row(store, current_user, user_id, id) ==
    IF current_user # user_id
    THEN Out(HttpError(403, "FORBIDDEN",
                       "You can only delete your own todos", <<>>), store)
    ELSE LET todo == SelectOwned(store, id, current_user) IN
         IF todo = 0
         THEN Out(HttpError(404, "NOT_FOUND",
                  "Todo not found or you don't have permission to delete it",
                  <<"select">>), store)
         ELSE Out(HttpOk(200, "Todo deleted successfully", <<>>,
                         <<"select", "commit">>),
                  [store EXCEPT ![todo].completed = TRUE])

delete_todo(store, current_user, user_id, id) ==
    IF current_user # user_id
    THEN Out(HttpError(403, "FORBIDDEN",
                       "You can only delete your own todos", <<>>), store)
    ELSE LET todo == SelectOwned(store, id, current_user) IN
         IF todo = 0
         THEN Out(HttpError(404, "NOT_FOUND",
                  "Todo not found or you don't have permission to delete it",
                  <<"select">>), store)
         ELSE Out(HttpOk(200, "Todo deleted successfully", <<>>,
                         <<"select", "delete", "commit">>),
                  Remove(store, todo))

----------------------------------------------------------------------------
(* Chat tool handlers.  user_id is the parameter the caller passes, todo_id
   the string the tool arguments carry.  Each yields the result mapping and
   the table it leaves behind. *)

(* The session call that raises during a handler, if any: the select
   (session.execute), session.commit, or the session.refresh after it. *)
Faults == {"none", "execute", "commit", "refresh"}

ToolOk(todos_, db) ==
    [success |-> TRUE, error |-> "", todos |-> todos_, db |-> db]

ToolFail(error, db) ==
    [success |-> FALSE, error |-> error, todos |-> <<>>, db |-> db]

ToolOut(r, store) == [result |-> r, todos |-> store]

create_todo_handler(store, newId, user_id, title, description, t, fault) ==
    LET row == [Todo(user_id, title, description, t) EXCEPT
                    !.completed = FALSE]
        store2 == Insert(store, newId, row)
    IN IF fault = "commit"
       THEN ToolOut(ToolFail("Failed to create todo: session error",
                             <<"insert">>), store)
       ELSE IF fault = "refresh"
       THEN ToolOut(ToolFail("Failed to create todo: session error",
                             <<"insert", "commit">>), store2)
       ELSE ToolOut(ToolOk(<<[todo_id |-> str(newId), title |-> row.title,
                              description |-> row.description,
                              completed |-> row.completed]>>,
                           <<"insert", "commit">>), store2)

list_todos_handler_rows_all_users(store, user_id, completed) ==
    {i \in DOMAIN store :
        completed # {} => store[i].completed \in completed}

(* The rows list_todos_handler selects: where(Todo.user_id == user_id) and,
   when completed is not None, where(Todo.completed == completed). *)
list_todos_handler_rows(store, user_id, completed) ==
    {i \in DOMAIN store :
        /\ store[i].user_id = user_id
        /\ completed # {} => store[i].completed \in completed}

list_todos_handler(store, user_id, completed, order, fault) ==
    IF fault = "execute"
    THEN ToolOut(ToolFail("Failed to list todos: session error", <<>>), store)
    ELSE ToolOut(ToolOk([i \in DOMAIN order |->
                            [id |-> str(order[i]),
                             title |-> store[order[i]].title,
                             description |-> store[order[i]].description,
                             completed |-> store[order[i]].completed,
                             created_at |-> store[order[i]].created_at]],
                        <<"select">>), store)

update_todo_handler(store, user_id, todo_id, title, description, completed, fault) ==
    IF ~ParsesAsUUID(todo_id)
    THEN ToolOut(ToolFail("Invalid todo ID format", <<>>), store)
    ELSE IF fault = "execute"
    THEN ToolOut(ToolFail("Failed to update todo: session error", <<>>),
                 store)
    ELSE LET todo == SelectOwned(store, UUID(todo_id), user_id) IN
         IF todo = 0
         THEN ToolOut(ToolFail(
                  "Todo not found or you don't have permission to update it",
                  <<"select">>), store)
         ELSE LET row == [store[todo] EXCEPT
                            !.title = IF title # None THEN title ELSE @,
                            !.description =
                                IF description # None THEN description ELSE @,
                            !.completed =
                                IF completed # {}
                                THEN CHOOSE b \in completed : TRUE ELSE @]
                  store2 == [store EXCEPT ![todo] = row]
              IN IF fault = "commit"
                 THEN ToolOut(ToolFail("Failed to update todo: session error",
                                       <<"select">>), store)
                 ELSE IF fault = "refresh"
                 THEN ToolOut(ToolFail("Failed to update todo: session error",
                                       <<"select", "commit">>), store2)
                 ELSE ToolOut(ToolOk(<<[todo_id |-> str(todo),
                                        title |-> row.title,
                                        description |-> row.description,
                                        completed |-> row.completed]>>,
                                     <<"select", "commit">>), store2)

delete_todo_handler_any_owner(store, user_id, todo_id, fault) ==
    IF ~ParsesAsUUID(todo_id)
    THEN ToolOut(ToolFail("Invalid todo ID format", <<>>), store)
    ELSE IF UUID(todo_id) \notin DOMAIN store
    THEN ToolOut(ToolFail(
             "Todo not found or you don't have permission to delete it",
             <<"select">>), store)
    ELSE ToolOut(ToolOk(<<>>, <<"select", "delete", "commit">>),
                 Remove(store, UUID(todo_id)))

delete_todo_handler(store, user_id, todo_id, fault) ==
    IF ~ParsesAsUUID(todo_id)
    THEN ToolOut(ToolFail("Invalid todo ID format", <<>>), store)
    ELSE IF fault = "execute"
    THEN ToolOut(ToolFail("Failed to delete todo: session error", <<>>),
                 store)
    ELSE LET todo == SelectOwned(store, UUID(todo_id), user_id) IN
         IF todo = 0
         THEN ToolOut(ToolFail(
                  "Todo not found or you don't have permission to delete it",
                  <<"select">>), store)
         ELSE IF fault = "commit"
         THEN ToolOut(ToolFail("Failed to delete todo: session error",
                               <<"select", "delete">>), store)
         ELSE ToolOut(ToolOk(<<>>, <<"select", "delete", "commit">>),
                      Remove(store, todo))

get_todo_handler(store, user_id, todo_id, fault) ==
    IF ~ParsesAsUUID(todo_id)
    THEN ToolOut(ToolFail("Invalid todo ID format", <<>>), store)
    ELSE IF fault = "execute"
    THEN ToolOut(ToolFail("Failed to get todo: session error", <<>>), store)
    ELSE LET todo == SelectOwned(store, UUID(todo_id), user_id) IN
         IF todo = 0
         THEN ToolOut(ToolFail(
                  "Todo not found or you don't have permission to view it",
                  <<"select">>), store)
         ELSE ToolOut(ToolOk(<<[id |-> str(todo),
                                title |-> store[todo].title,
                                description |-> store[todo].description,
                                completed |-> store[todo].completed,
                                created_at |-> store[todo].created_at,
                                updated_at |-> store[todo].updated_at]>>,
                             <<"select">>), store)

----------------------------------------------------------------------------
(* Chat endpoint *)

NoCall == [tool |-> "none"]

(* Arguments of an update_todo tool call: nothing supplied, one field
   supplied, or all three. *)
UpdateArgs ==
    {[title |-> None, description |-> None, completed |-> {}],
     [title |-> "t2", description |-> None, completed |-> {}],
     [title |-> None, description |-> "d1", completed |-> {}],
     [title |-> None, description |-> None, completed |-> {TRUE}],
     [title |-> None, description |-> None, completed |-> {FALSE}],
     [title |-> "t1", description |-> "d1", completed |-> {TRUE}]}

(* ALL_TOOLS: the properties each tool schema declares. *)
ALL_TOOLS ==
    [create_todo |-> {"title", "description"},
     list_todos |-> {"completed"},
     update_todo |-> {"todo_id", "title", "description", "completed"},
     delete_todo |-> {"todo_id"},
     get_todo |-> {"todo_id"}]

ToolCalls ==
    {[tool |-> "create_todo", title |-> ti, description |-> d] :
        ti \in Titles, d \in Descs}
    \cup {[tool |-> "list_todos", completed |-> c] : c \in OptBools}
    \cup {[tool |-> "update_todo", todo_id |-> s, title |-> a.title,
           description |-> a.description, completed |-> a.completed] :
            s \in TodoIdStrs, a \in UpdateArgs}
    \cup {[tool |-> "delete_todo", todo_id |-> s] : s \in TodoIdStrs}
    \cup {[tool |-> "get_todo", todo_id |-> s] : s \in TodoIdStrs}

(* The tool dispatch of the chat service: the tool named by the decision step
   runs with the user_id the chat endpoint passed, never one from the
   arguments. *)
execute_tool(store, newId, user_id, call, t, order, fault) ==
    CASE call.tool = "create_todo" ->
            create_todo_handler(store, newId, user_id, call.title,
                                call.description, t, fault)
      [] call.tool = "list_todos" ->
            list_todos_handler(store, user_id, call.completed, order, fault)
      [] call.tool = "update_todo" ->
            update_todo_handler(store, user_id, call.todo_id, call.title,
                                call.description, call.completed, fault)
      [] call.tool = "delete_todo" ->
            delete_todo_handler(store, user_id, call.todo_id, fault)
      [] call.tool = "get_todo" ->
            get_todo_handler(store, user_id, call.todo_id, fault)

(* The session call `fault` names is reached by the tool call, and raises. *)
FaultFires(store, newId, user_id, call, t, order, fault) ==
    /\ call # NoCall
    /\ execute_tool(store, newId, user_id, call, t, order, fault)
          # execute_tool(store, newId, user_id, call, t, order, "none")

(* The rows a tool call lists (empty for a tool that lists nothing). *)
CallRows(store, user_id, call) ==
    IF call.tool = "list_todos"
    THEN list_todos_handler_rows(store, user_id, call.completed)
    ELSE {}

(* chat_service.process_message: resolve or create the conversation, let the
   decision step (llm) pick at most one tool call, run it, append the turn.
   conversation_id 0 stands for None. *)
process_message(store, cv, newId, user_id, conversation_id, llm, t, order, fault) ==
    IF conversation_id # 0
       /\ ~(conversation_id \in DOMAIN cv /\ cv[conversation_id] = user_id)
    THEN [success |-> FALSE,
          error |-> "Conversation not found or access denied",
          tool_calls |-> <<>>, db |-> <<"select_conversation">>,
          todos |-> store, convs |-> cv]
    ELSE IF ~llm.ok
    THEN [success |-> FALSE, error |-> "Failed to process message",
          tool_calls |-> <<>>, db |-> <<"select_conversation">>,
          todos |-> store, convs |-> cv]
    ELSE LET cid == IF conversation_id # 0 THEN conversation_id
                    ELSE Cardinality(DOMAIN cv) + 1
             cv2 == [i \in DOMAIN cv \cup {cid} |->
                        IF i \in DOMAIN cv THEN cv[i] ELSE user_id]
         IN IF llm.call = NoCall
            THEN [success |-> TRUE, error |-> "", tool_calls |-> <<>>,
                  db |-> <<"select_conversation", "append_turn">>,
                  todos |-> store, convs |-> cv2]
            ELSE LET o == execute_tool(store, newId, user_id, llm.call, t,
                                       order, fault)
                 IN [success |-> TRUE, error |-> "",
                     tool_calls |-> <<o.result>>,
                     db |-> <<"select_conversation">> \o o.result.db
                               \o <<"append_turn">>,
                     todos |-> o.todos, convs |-> cv2]

ChatOut(r, store, cv) == [resp |-> r, todos |-> store, convs |-> cv]

(* "not found" in error_message.lower() or "access denied" in ... *)
MentionsNotFound(error) ==
    error \in {"Conversation not found or access denied"}

chat(store, cv, newId, current_user, user_id, conversation_id, llm, t, order, fault) ==
    IF current_user # user_id
    THEN ChatOut(HttpError(403, "FORBIDDEN",
            "You don't have permission to access this user's chat", <<>>),
            store, cv)
    ELSE IF Truthy(conversation_id) /\ ~ParsesAsUUID(conversation_id)
    THEN ChatOut(HttpError(400, "INVALID_INPUT",
            "Invalid conversation ID format", <<>>), store, cv)
    ELSE LET conversation_uuid ==
                 IF ~Truthy(conversation_id) THEN 0
                 ELSE UUID(conversation_id)
             result == process_message(store, cv, newId, user_id,
                                       conversation_uuid, llm, t, order,
                                       fault)
         IN IF ~result.success
            THEN IF MentionsNotFound(result.error)
                 THEN ChatOut(HttpError(404, "NOT_FOUND", result.error,
                                        result.db), result.todos, result.convs)
                 ELSE ChatOut(HttpError(500, "INTERNAL_ERROR", result.error,
                                        result.db), result.todos, result.convs)
            ELSE ChatOut([status |-> 200, code |-> "",
                          message |-> "Message processed successfully",
                          data |-> <<>>, tool |-> result.tool_calls,
                          db |-> result.db], result.todos, result.convs)

(* conversation_service.list_conversations(user_id, limit, offset): the
   user's conversations, newest first, offset skipped, at most limit. *)
conversations_of(cv, user_id, limit, offset) ==
    LET mine == {c \in DOMAIN cv : cv[c] = user_id}
        all == CHOOSE s \in [1..Cardinality(mine) -> mine] :
                  \A i, j \in DOMAIN s : i < j => s[i] > s[j]
        last == IF offset + limit < Len(all) THEN offset + limit ELSE Len(all)
    IN [i \in 1..(IF last > offset THEN last - offset ELSE 0) |->
           [id |-> str(all[offset + i]), user_id |-> str(user_id)]]

list_conversations_validates_first(cv, current_user, user_id, limit, offset) ==
    IF limit < 1 \/ limit > 100
    THEN HttpError(400, "INVALID_INPUT", "Limit must be between 1 and 100",
                   <<>>)
    ELSE IF offset < 0
    THEN HttpError(400, "INVALID_INPUT", "Offset must be non-negative", <<>>)
    ELSE IF current_user # user_id
    THEN HttpError(403, "FORBIDDEN",
            "You don't have permission to access this user's conversations",
            <<>>)
    ELSE HttpOk(200, "Conversations retrieved successfully",
                conversations_of(cv, user_id, limit, offset),
                <<"select_conversations">>)
list_conversations(cv, current_user, user_id, limit, offset) ==
    IF current_user # user_id
    THEN HttpError(403, "FORBIDDEN",
            "You don't have permission to access this user's conversations",
            <<>>)
    ELSE IF limit < 1 \/ limit > 100
    THEN HttpError(400, "INVALID_INPUT", "Limit must be between 1 and 100",
                   <<>>)
    ELSE IF offset < 0
    THEN HttpError(400, "INVALID_INPUT", "Offset must be non-negative", <<>>)
    ELSE HttpOk(200, "Conversations retrieved successfully",
                conversations_of(cv, user_id, limit, offset),
                <<"select_conversations">>)

----------------------------------------------------------------------------
(* Spec: requests against the todo store.  A request is handled in one
   step, which leaves the request and its response in req and resp; Respond
   delivers the response, after which the next request is taken. *)

Init ==
    /\ todos = <<>>
    /\ nextId = 1
    /\ convs = <<>>
    /\ now = 0
    /\ issued = {}
    /\ users = <<>>
    /\ txs = <<>>
    /\ req = NoReq
    /\ resp = NoResp

Idle == req = NoReq

Respond ==
    /\ ~Idle
    /\ req' = NoReq
    /\ resp' = NoResp
    /\ UNCHANGED <<todos, nextId, convs, now, issued, users, txs>>

Tick ==
    /\ Idle
    /\ now < MaxClock
    /\ now' = now + 1
    /\ UNCHANGED <<todos, nextId, convs, issued, users, txs, req, resp>>

CreateTodo ==
    /\ Idle
    /\ \E cur \in Users, path \in Users, ti \in BodyTitles, d \in Descs :
        /\ TodoCreate(ti)
        /\ cur = path => nextId <= MaxTodos
        /\ LET o == create_todo(todos, nextId, cur, path, ti, d, now) IN
             /\ todos' = o.todos
             /\ nextId' = IF o.resp.status = 201 THEN nextId + 1 ELSE nextId
             /\ resp' = o.resp
        /\ req' = [ep |-> "create", auth |-> cur, path |-> path,
                   title |-> ti, description |-> d]
        /\ UNCHANGED <<convs, now, issued, users, txs>>

(* GET .../todos, with or without a ?completed= query parameter; list_todos
   declares no such parameter, so the value never reaches it. *)
ListTodos ==
    /\ Idle
    /\ \E cur \in Users, path \in Users, completed \in OptBools :
      \E order \in OrderedDesc(todos, list_todos_rows(todos, cur)) :
        /\ LET o == list_todos(todos, cur, path, order) IN
             /\ todos' = o.todos
             /\ resp' = o.resp
        /\ req' = [ep |-> "list", auth |-> cur, path |-> path,
                   completed |-> completed]
        /\ UNCHANGED <<nextId, convs, now, issued, users, txs>>

GetTodo ==
    /\ Idle
    /\ \E cur \in Users, path \in Users, id \in ReqIds :
        /\ LET o == get_todo(todos, cur, path, id) IN
             /\ todos' = o.todos
             /\ resp' = o.resp
        /\ req' = [ep |-> "get", auth |-> cur, path |-> path, id |-> id]
        /\ UNCHANGED <<nextId, convs, now, issued, users, txs>>

UpdateTodo ==
    /\ Idle
    /\ \E cur \in Users, path \in Users, id \in ReqIds,
       ti \in BodyTitles, d \in Descs :
        /\ TodoUpdate(ti)
        /\ LET o == update_todo(todos, cur, path, id, ti, d, now) IN
             /\ todos' = o.todos
             /\ resp' = o.resp
        /\ req' = [ep |-> "update", auth |-> cur, path |-> path, id |-> id,
                   title |-> ti, description |-> d]
        /\ UNCHANGED <<nextId, convs, now, issued, users, txs>>

(* A create or update request whose body fails TodoCreate / TodoUpdate: it
   is answered before create_todo or update_todo is entered. *)
RejectBody ==
    /\ Idle
    /\ \E cur \in Users, path \in Users, op \in {"create", "update"},
       ti \in BodyTitles, d \in Descs :
        /\ IF op = "create" THEN ~TodoCreate(ti) ELSE ~TodoUpdate(ti)
        /\ op = "update" => d = None
        /\ req' = [ep |-> "validation", op |-> op, auth |-> cur,
                   path |-> path, title |-> ti, description |-> d]
        /\ resp' = RequestValidationError
        /\ UNCHANGED <<todos, nextId, convs, now, issued, users, txs>>

ToggleTodo ==
    /\ Idle
    /\ \E cur \in Users, path \in Users, id \in ReqIds :
        /\ LET o == toggle_todo_completion(todos, cur, path, id, now) IN
             /\ todos' = o.todos
             /\ resp' = o.resp
        /\ req' = [ep |-> "toggle", auth |-> cur, path |-> path, id |-> id]
        /\ UNCHANGED <<nextId, convs, now, issued, users, txs>>

DeleteTodo ==
    /\ Idle
    /\ \E cur \in Users, path \in Users, id \in ReqIds :
        /\ LET o == delete_todo(todos, cur, path, id) IN
             /\ todos' = o.todos
             /\ resp' = o.resp
        /\ req' = [ep |-> "delete", auth |-> cur, path |-> path, id |-> id]
        /\ UNCHANGED <<nextId, convs, now, issued, users, txs>>

(* The outcomes of the decision step of process_message: it fails, answers
   without a tool, or picks one tool call. *)
NoDecision == [ok |-> TRUE, call |-> NoCall]

Decisions ==
    {[ok |-> FALSE, call |-> NoCall]}
        \cup {[ok |-> TRUE, call |-> c] : c \in ToolCalls \cup {NoCall}}

(* The decision step is reached only by a request that passes the checks
   before it. *)
ReachesDecision(cv, cur, path, cid) ==
    /\ cur = path
    /\ \/ ~Truthy(cid)
       \/ /\ ParsesAsUUID(cid)
          /\ UUID(cid) \in DOMAIN cv
          /\ cv[UUID(cid)] = path

Chat ==
    /\ Idle
    /\ \E cur \in Users, path \in Users, cid \in ConvIdStrs, llm \in Decisions :
      /\ ReachesDecision(convs, cur, path, cid) \/ llm = NoDecision
      /\ llm.call.tool = "create_todo" => nextId <= MaxTodos
      /\ ~Truthy(cid) => Cardinality(DOMAIN convs) < MaxConvs
      /\ \E order \in OrderedDesc(todos, CallRows(todos, path, llm.call)),
            fault \in Faults :
        /\ fault # "none" =>
              /\ ReachesDecision(convs, cur, path, cid)
              /\ FaultFires(todos, nextId, path, llm.call, now, order, fault)
        /\ LET o == chat(todos, convs, nextId, cur, path, cid, llm, now,
                         order, fault) IN
             /\ todos' = o.todos
             /\ convs' = o.convs
             /\ nextId' = IF nextId \in DOMAIN o.todos THEN nextId + 1
                          ELSE nextId
             /\ resp' = o.resp
        /\ req' = [ep |-> "chat", auth |-> cur, path |-> path,
                   conversation_id |-> cid, llm |-> llm, fault |-> fault]
        /\ UNCHANGED <<now, issued, users, txs>>

Limits == {0, 1, 100, 101}
Offsets == {-1, 0, 1}

ListConversations ==
    /\ Idle
    /\ \E cur \in Users, path \in Users, limit \in Limits, offset \in Offsets :
        /\ resp' = list_conversations(convs, cur, path, limit, offset)
        /\ req' = [ep |-> "conversations", auth |-> cur, path |-> path,
                   limit |-> limit, offset |-> offset]
        /\ UNCHANGED <<todos, nextId, convs, now, issued, users, txs>>

Next ==
    \/ Respond
    \/ Tick
    \/ CreateTodo
    \/ ListTodos
    \/ GetTodo
    \/ UpdateTodo
    \/ RejectBody
    \/ ToggleTodo
    \/ DeleteTodo
    \/ Chat
    \/ ListConversations

Spec == Init /\ [][Next]_vars

----------------------------------------------------------------------------
(* Token service *)

JWT_SECRET == "secret"          \* settings.JWT_SECRET
JWT_ALGORITHM == "HS256"        \* settings.JWT_ALGORITHM
JWT_EXPIRATION_HOURS == 24      \* settings.JWT_EXPIRATION_HOURS

Email(u) == CASE u = "A" -> "a@x" [] u = "B" -> "b@x" [] OTHER -> "z@x"

(* A compact JWS: the header's alg, the claims, and the signature, which is
   determined by the key, the algorithm and the claims it was made over.  wf
   is FALSE for a string that is not three base64 segments of JSON. *)
Sign(key, alg, claims) == [key |-> key, alg |-> alg, claims |-> claims]

NoClaims == [sub |-> [form |-> "missing", id |-> ""], email |-> None,
             exp |-> 0, iat |-> 0]

Jws(alg, claims, sig) ==
    [wf |-> TRUE, alg |-> alg, claims |-> claims, sig |-> sig]

Malformed ==
    [wf |-> FALSE, alg |-> "", claims |-> NoClaims,
     sig |-> Sign("", "", NoClaims)]

(* create_access_token at clock value t (hours) *)
create_access_token_swapped(user_id, email, t) ==
    LET to_encode == [sub |-> str(email), email |-> email,
                      exp |-> t + JWT_EXPIRATION_HOURS, iat |-> t]
    IN Jws(JWT_ALGORITHM, to_encode,
           Sign(JWT_SECRET, JWT_ALGORITHM, to_encode))

create_access_token(user_id, email, t) ==
    LET expire == t + JWT_EXPIRATION_HOURS
        to_encode == [sub |-> str(user_id), email |-> email,
                      exp |-> expire, iat |-> t]
    IN Jws(JWT_ALGORITHM, to_encode,
           Sign(JWT_SECRET, JWT_ALGORITHM, to_encode))

(* jwt.decode(token, key, algorithms): the exception it raises ("" for
   none) and the claims it returns.  The segments are parsed, the header's
   alg must be an allowed one, the signature must verify under key, and an
   exp earlier than the current time is expired. *)
JWTErrors == {"JWTError", "ExpiredSignatureError", "JWTClaimsError"}

Raised(exc) == [exc |-> exc, payload |-> NoClaims]

jwt_decode(token, key, algorithms, t) ==
    IF ~token.wf THEN Raised("JWTError")
    ELSE IF token.alg \notin algorithms THEN Raised("JWTError")
    ELSE IF token.sig # Sign(key, token.alg, token.claims)
    THEN Raised("JWTError")
    ELSE IF token.claims.exp < t THEN Raised("ExpiredSignatureError")
    ELSE [exc |-> "", payload |-> token.claims]

(* verify_token: the payload, None, or the exception that escapes *)
VerifyOut(kind, payload) == [kind |-> kind, payload |-> payload]

verify_token_narrow_except(token, t) ==
    LET r == jwt_decode(token, JWT_SECRET, {JWT_ALGORITHM}, t) IN
    IF r.exc = "" THEN VerifyOut("payload", r.payload)
    ELSE IF r.exc = "ExpiredSignatureError" THEN VerifyOut("None", NoClaims)
    ELSE VerifyOut("raise", NoClaims)

verify_token(token, t) ==
    LET r == jwt_decode(token, JWT_SECRET, {JWT_ALGORITHM}, t) IN
    IF r.exc = "" THEN VerifyOut("payload", r.payload)
    ELSE IF r.exc \in JWTErrors THEN VerifyOut("None", NoClaims)
    ELSE VerifyOut("raise", NoClaims)

----------------------------------------------------------------------------
(* Authentication dependencies *)

Bearer == {"WWW-Authenticate: Bearer"}

NoUser == [id |-> None, email |-> None]

(* HTTPException(401, detail, headers) / the value the dependency returns *)
Unauthorized(detail) ==
    [status |-> 401, detail |-> detail, headers |-> Bearer, user |-> NoUser]

Authenticated(user) ==
    [status |-> 200, detail |-> "", headers |-> {}, user |-> user]

Escaped == [status |-> 500, detail |-> "", headers |-> {}, user |-> NoUser]

SelectUserUnfiltered(user_id) ==
    [id |-> "A", email |-> Email("A")]

(* select(User).where(User.id == user_id).scalar_one_or_none() *)
SelectUser(user_id) ==
    IF user_id \in Users THEN [id |-> user_id, email |-> Email(user_id)]
    ELSE NoUser

(* dependencies.get_current_user *)
dependencies_get_current_user(token, t) ==
    LET v == verify_token(token, t) IN
    IF v.kind = "raise" THEN Escaped
    ELSE IF v.kind = "None" THEN Unauthorized("Invalid or expired token")
    ELSE LET user_id_str == v.payload.sub IN
         IF user_id_str.form = "missing"
         THEN Unauthorized("Invalid token payload")
         ELSE IF ~ParsesAsUUID(user_id_str)
         THEN Unauthorized("Invalid user ID in token")
         ELSE LET user == SelectUser(UUID(user_id_str)) IN
              IF user = NoUser THEN Unauthorized("User not found")
              ELSE Authenticated(user)

(* middleware.get_current_user *)
middleware_get_current_user(token, t) ==
    LET v == verify_token(token, t) IN
    IF v.kind = "raise" THEN Escaped
    ELSE IF v.kind = "None" THEN Unauthorized("Invalid token")
    ELSE IF v.payload.exp < t THEN Unauthorized("Token has expired")
    ELSE LET user_id == v.payload.sub
             email == v.payload.email
         IN IF user_id.form = "missing" \/ email = None
            THEN Unauthorized("Invalid token")
            ELSE Authenticated([user_id |-> user_id, email |-> email,
                                token_payload |-> v.payload])

----------------------------------------------------------------------------
(* security = HTTPBearer(): auto_error keeps its default, so the scheme
   itself refuses a request without an Authorization header before the
   dependant runs; the installed framework answers 403 or, in later
   releases, 401 with the Bearer challenge. *)
NotAuthenticated(status) ==
    [status |-> status, detail |-> "Not authenticated",
     headers |-> IF status = 401 THEN Bearer ELSE {}, user |-> NoUser]

(* get_optional_current_user returning None *)
ReturnsNone == Authenticated(NoUser)

(* middleware.get_optional_current_user, given the credentials the scheme
   extracted; both except clauses return None *)
get_optional_current_user(token, t) ==
    LET v == verify_token(token, t) IN
    IF v.kind = "raise" THEN ReturnsNone
    ELSE IF v.kind = "None" THEN ReturnsNone
    ELSE IF v.payload.exp < t THEN ReturnsNone
    ELSE LET user_id == v.payload.sub
             email == v.payload.email
         IN IF user_id.form = "missing" \/ email = None
            THEN ReturnsNone
            ELSE Authenticated([user_id |-> user_id, email |-> email,
                                token_payload |-> v.payload])

(* Depends(security) followed by get_optional_current_user *)
optional_auth(header, token, t, status) ==
    IF ~header THEN NotAuthenticated(status)
    ELSE get_optional_current_user(token, t)

(* SpecAuth: the token service and the dependencies under the credentials a
   client can present. *)

Signed(claims) ==
    Jws(JWT_ALGORITHM, claims, Sign(JWT_SECRET, JWT_ALGORITHM, claims))

(* An issued token changed after issue, its signature kept. *)
Altered(token) ==
    {[token EXCEPT !.claims.sub = str(u)] : u \in Users \ {token.claims.sub.id}}
        \cup {[token EXCEPT !.claims.exp = @ + 1]}

(* Tokens made without the secret or outside the configured algorithm. *)
Forged(t) ==
    LET c == [sub |-> str("A"), email |-> Email("A"), exp |-> t + 1,
              iat |-> t]
    IN {Malformed,
        Jws(JWT_ALGORITHM, c, Sign("attacker", JWT_ALGORITHM, c)),
        Jws("HS512", c, Sign(JWT_SECRET, "HS512", c)),
        Jws("none", c, Sign("", "none", c))}

(* Correctly signed tokens with arbitrary claims: a spelling of a stored
   user's id, the id of no stored user, a non-UUID or no sub at all; with or
   without email; expiring just before, at, or just after the clock value. *)
SubStrs ==
    {str("A"), [form |-> "upper", id |-> "A"], str(GhostUser),
     [form |-> "bad", id |-> ""], [form |-> "missing", id |-> ""]}

Crafted(t) ==
    {Signed([sub |-> s, email |-> e, exp |-> x, iat |-> 0]) :
        s \in SubStrs, e \in {Email("A"), None}, x \in {t - 1, t, t + 1}}

Credentials(t) ==
    {i.token : i \in issued}
        \cup UNION {Altered(i.token) : i \in issued}
        \cup Forged(t) \cup Crafted(t)

IssueToken ==
    /\ Idle
    /\ Cardinality(issued) < MaxTokens
    /\ \E u \in Users :
        LET token == create_access_token(u, Email(u), now) IN
        /\ issued' = issued \cup
                {[user_id |-> u, email |-> Email(u), at |-> now,
                  token |-> token]}
        /\ req' = [ep |-> "issue", user_id |-> u, email |-> Email(u)]
        /\ resp' = [token |-> token]
    /\ UNCHANGED <<todos, nextId, convs, now, users, txs>>

AuthTick ==
    /\ Idle
    /\ \E d \in {1, JWT_EXPIRATION_HOURS - 1} :
        /\ now + d <= MaxAuthClock
        /\ now' = now + d
    /\ UNCHANGED <<todos, nextId, convs, issued, users, txs, req, resp>>

VerifyToken ==
    /\ Idle
    /\ \E token \in Credentials(now) :
        /\ req' = [ep |-> "verify", token |-> token]
        /\ resp' = verify_token(token, now)
    /\ UNCHANGED <<todos, nextId, convs, now, issued, users, txs>>

DepGetCurrentUser ==
    /\ Idle
    /\ \E token \in Credentials(now) :
        /\ req' = [ep |-> "dependencies", token |-> token]
        /\ resp' = dependencies_get_current_user(token, now)
    /\ UNCHANGED <<todos, nextId, convs, now, issued, users, txs>>

MwGetCurrentUser ==
    /\ Idle
    /\ \E token \in Credentials(now) :
        /\ req' = [ep |-> "middleware", token |-> token]
        /\ resp' = middleware_get_current_user(token, now)
    /\ UNCHANGED <<todos, nextId, convs, now, issued, users, txs>>

(* A request to an endpoint that depends on get_optional_current_user, with
   or without an Authorization header. *)
OptGetCurrentUser ==
    /\ Idle
    /\ \E header \in BOOLEAN, token \in Credentials(now), st \in {401, 403} :
        /\ header => st = 403
        /\ ~header => token = Malformed
        /\ req' = [ep |-> "optional", header |-> header, token |-> token]
        /\ resp' = optional_auth(header, token, now, st)
    /\ UNCHANGED <<todos, nextId, convs, now, issued, users, txs>>

(* middleware.verify_user_owns_resource: True, or HTTPException(403) whose
   detail is a plain string. *)
Forbidden(detail) ==
    [status |-> 403, detail |-> detail, headers |-> {}, user |-> NoUser]

Allowed == [status |-> 200, detail |-> "", headers |-> {}, user |-> NoUser]

verify_user_owns_resource(user_id_from_token, user_id_from_request) ==
    IF user_id_from_token # user_id_from_request
    THEN Forbidden("Access denied - cannot access other users' data")
    ELSE Allowed

VerifyOwner ==
    /\ Idle
    /\ \E user_id_from_token \in Users, user_id_from_request \in Users \cup {GhostUser} :
        /\ req' = [ep |-> "owner", token_user |-> user_id_from_token, path_user |-> user_id_from_request]
        /\ resp' = verify_user_owns_resource(user_id_from_token, user_id_from_request)
    /\ UNCHANGED <<todos, nextId, convs, now, issued, users, txs>>

NextAuth ==
    \/ Respond
    \/ AuthTick
    \/ IssueToken
    \/ VerifyToken
    \/ DepGetCurrentUser
    \/ MwGetCurrentUser
    \/ OptGetCurrentUser
    \/ VerifyOwner

SpecAuth == Init /\ [][NextAuth]_vars

----------------------------------------------------------------------------
(* Signup: password checks, request schemas, user responses *)

MIN_PASSWORD_LENGTH == 8
MAX_PASSWORD_LENGTH == 128

\* A password is the count of its characters in each class: str.isupper,
\* str.islower, str.isdigit, and the characters that are none of the three.
Passwords == [upper : {0, 1}, lower : {0, 1, MIN_PASSWORD_LENGTH}, digit : {0, 1}, other : {0, MIN_PASSWORD_LENGTH - 4, MIN_PASSWORD_LENGTH - 3, MAX_PASSWORD_LENGTH - 3, MAX_PASSWORD_LENGTH - 2}]

password_len(v) == v.upper + v.lower + v.digit + v.other

ValueError(message) == [error |-> message]

Raises(x) == "error" \in DOMAIN x

\* UserCreate.validate_password: returns the password or raises ValueError.
validate_password(v) == IF password_len(v) < 8 THEN ValueError("Password must be at least 8 characters long") ELSE IF v.upper = 0 THEN ValueError("Password must contain at least one uppercase letter") ELSE IF v.lower = 0 THEN ValueError("Password must contain at least one lowercase letter") ELSE IF v.digit = 0 THEN ValueError("Password must contain at least one digit") ELSE v

\* utils.is_valid_password
is_valid_password(password) ==
    IF password_len(password) < 8 \/ password_len(password) > 128
    THEN FALSE
    ELSE LET has_upper == password.upper > 0
             has_lower == password.lower > 0
             has_digit == password.digit > 0
         IN  has_upper /\ has_lower /\ has_digit

\* EmailStr: the address parses or the body is rejected.
Emails == {"a@x.io", "not-an-email"}

EmailStr(email) == email = "a@x.io"

\* The signup request schemas: what each accepts as a body.
UserCreate(email, password) == EmailStr(email) /\ ~Raises(validate_password(password))

SignUpRequest(email, password) == UserCreate(email, password)

UserSignup(email, password) == EmailStr(email) /\ password_len(password) >= 8

SignupSchemas == {"UserCreate", "SignUpRequest", "UserSignup"}

SchemaAccepts(schema, email, password) ==
    CASE schema = "UserCreate" -> UserCreate(email, password)
      [] schema = "SignUpRequest" -> SignUpRequest(email, password)
      [] schema = "UserSignup" -> UserSignup(email, password)

\* The external hashing primitive: opaque, and never the password itself.
hash_password(password) == [hash_of |-> password]

\* A row of the users table.
User(id, email, password, t) == [id |-> id, email |-> email, password_hash |-> hash_password(password), created_at |-> t, updated_at |-> t]

\* The user response schemas: from_attributes copies the declared fields.
UserResponseFields_with_hash ==
    [auth |-> {"id", "email", "password_hash"}, user |-> {"id", "email", "created_at", "updated_at", "password_hash"}]
UserResponseFields ==
    [auth |-> {"id", "email"}, user |-> {"id", "email", "created_at", "updated_at"}]

ResponseSchemas == DOMAIN UserResponseFields

UserResponse(schema, row) == [f \in UserResponseFields[schema] |-> row[f]]

\* POST /api/signup: the body is validated against the request schema
\* before the route runs; the route stores the user with the hashed
\* password and answers with the user response.
signup(table, schema, rschema, email, password, t) ==
    IF ~SchemaAccepts(schema, email, password)
    THEN [users |-> table, resp |-> [status |-> 422, success |-> FALSE, data |-> None, error |-> [code |-> "VALIDATION_ERROR", message |-> "validation error"]]]
    ELSE IF email \in DOMAIN table
    THEN [users |-> table, resp |-> [status |-> 400, success |-> FALSE, data |-> None, error |-> [code |-> "EMAIL_EXISTS", message |-> "Email already registered"]]]
    ELSE LET row == User(Cardinality(DOMAIN table) + 1, email, password, t)
         IN  [users |-> Insert(table, email, row), resp |-> [status |-> 201, success |-> TRUE, data |-> UserResponse(rschema, row), error |-> None]]

Signup ==
    /\ Idle
    /\ \E schema \in SignupSchemas, rschema \in ResponseSchemas, email \in Emails, password \in Passwords :
        LET out == signup(users, schema, rschema, email, password, now)
        IN  /\ users' = out.users
            /\ req' = [ep |-> "signup", schema |-> schema, rschema |-> rschema, email |-> email, password |-> password]
            /\ resp' = out.resp
    /\ UNCHANGED <<todos, nextId, convs, now, issued, txs>>

\* The two password checks applied to one password.
CheckPassword ==
    /\ Idle
    /\ \E password \in Passwords :
        /\ req' = [ep |-> "password", password |-> password]
        /\ resp' = [validate_password |-> ~Raises(validate_password(password)), is_valid_password |-> is_valid_password(password)]
    /\ UNCHANGED <<todos, nextId, convs, now, issued, users, txs>>

NextSignup ==
    \/ Respond
    \/ Signup
    \/ CheckPassword

SpecSignup == Init /\ [][NextSignup]_vars

----------------------------------------------------------------------------

(* Concurrent mutating requests on one todo *)

(* Each request has its own AsyncSession (get_session).  A mutating handler
   first selects the row into its session, then changes attributes of the
   loaded object and commits.  The engine is created without an isolation
   level and the handlers take no row lock and keep no version column: the
   commit flushes an UPDATE of the attributes the handler changed, with
   WHERE id = the loaded row's id, or a DELETE of that row. *)

Sessions == {1, 2}

ConcOps == [kind : {"toggle", "delete"}, title : {None}, description : {None}] \cup [kind : {"update"}, title : OptTitles, description : Descs]

SeedTodos == Insert(<<>>, 1, Todo("A", "t1", None, 0))

InitConc ==
    /\ todos = SeedTodos
    /\ nextId = 2
    /\ convs = <<>>
    /\ now = 1
    /\ issued = {}
    /\ users = <<>>
    /\ txs = <<>>
    /\ req = NoReq
    /\ resp = NoResp

\* The attribute assignments of update_todo and toggle_todo_completion on
\* the loaded object.
mutate(todo, op, t) ==
    CASE op.kind = "update" -> [todo EXCEPT !.title = IF op.title # None THEN op.title ELSE @, !.description = IF op.description # None THEN op.description ELSE @, !.updated_at = t]
      [] op.kind = "toggle" -> [todo EXCEPT !.completed = ~@, !.updated_at = t]
      [] op.kind = "delete" -> todo

\* session.commit(): the flush writes the changed attributes of the loaded
\* object to the stored row, or deletes the row.  An UPDATE that matches no
\* row raises (StaleDataError, status 500); a DELETE that matches no row
\* does not.
commit(store, id, loaded, op, t) ==
    LET changed == mutate(loaded, op, t)
        dirty == {f \in DOMAIN loaded : changed[f] # loaded[f]}
    IN  IF op.kind = "delete"
        THEN Out(200, Remove(store, id))
        ELSE IF id \notin DOMAIN store
        THEN Out(500, store)
        ELSE Out(200, [store EXCEPT ![id] = [f \in DOMAIN @ |-> IF f \in dirty THEN changed[f] ELSE @[f]]])

\* The handler up to `if todo is None`: the owner-filtered select.
Select(p) ==
    /\ p \notin DOMAIN txs
    /\ \E op \in ConcOps :
        LET todo == SelectOwned(todos, 1, "A")
        IN  txs' = Insert(txs, p, IF todo = 0 THEN [op |-> op, pc |-> "done", loaded |-> None, status |-> 404] ELSE [op |-> op, pc |-> "loaded", loaded |-> todos[todo], status |-> 0])
    /\ UNCHANGED <<todos, nextId, convs, now, issued, users, req, resp>>

\* The rest of the handler: the attribute assignments and the commit.
Commit(p) ==
    /\ p \in DOMAIN txs
    /\ txs[p].pc = "loaded"
    /\ LET out == commit(todos, 1, txs[p].loaded, txs[p].op, now)
       IN  /\ todos' = out.todos
           /\ txs' = [txs EXCEPT ![p].pc = "done", ![p].status = out.resp]
    /\ UNCHANGED <<nextId, convs, now, issued, users, req, resp>>

NextConc ==
    \/ \E p \in Sessions : Select(p)
    \/ \E p \in Sessions : Commit(p)

SpecConc == InitConc /\ [][NextConc]_vars

----------------------------------------------------------------------------

(* Properties *)

(* The step that handles a request. *)
Handles == Idle /\ ~Idle'

SingleOps == {"get", "update", "toggle", "delete"}

(* Request r names, as user r.auth on r.auth's own path, a todo of `store`
   that another user owns. *)
NamesForeignTodo(r, store) ==
    /\ r.ep \in SingleOps
    /\ r.auth = r.path
    /\ r.id \in DOMAIN store
    /\ store[r.id].user_id # r.auth

(* Chat request r reaches a get/update/delete tool call whose todo_id spells
   the id of a todo of `store` that another user owns. *)
ToolNamesForeignTodo(r, store, cv) ==
    /\ r.ep = "chat"
    /\ ReachesDecision(cv, r.auth, r.path, r.conversation_id)
    /\ r.llm.ok
    /\ r.llm.call.tool \in {"get_todo", "update_todo", "delete_todo"}
    /\ ParsesAsUUID(r.llm.call.todo_id)
    /\ UUID(r.llm.call.todo_id) \in DOMAIN store
    /\ store[UUID(r.llm.call.todo_id)].user_id # r.path

(* C1: a get, update, toggle-complete or delete by A that names a todo owned
   by B answers 404 NOT_FOUND, carries no todo data and leaves the table as
   it was; the chat handlers get/update/delete answer success = false, carry
   no todo and leave the table as it was. *)
C1_ForeignTodoIsNotFound ==
    [][Handles =>
        /\ NamesForeignTodo(req', todos) =>
              /\ resp'.status = 404
              /\ resp'.code = "NOT_FOUND"
              /\ resp'.data = <<>>
              /\ todos' = todos
        /\ ToolNamesForeignTodo(req', todos, convs) =>
              /\ Len(resp'.tool) = 1
              /\ resp'.tool[1].success = FALSE
              /\ resp'.tool[1].todos = <<>>
              /\ todos' = todos]_vars

C1_Witness ==
    /\ req.ep = "update"
    /\ req.auth = "A"
    /\ req.title = "t2"
    /\ NamesForeignTodo(req, todos)
    /\ todos[req.id].user_id = "B"
    /\ todos[req.id].title = "t1"
    /\ resp.status = 404

(* The ids of the todos a REST list response / a chat list result carries. *)
RestIds(data) == {data[i].id : i \in DOMAIN data}

ToolIds(views) == {UUID(views[i].id) : i \in DOMAIN views}

OwnedBy(store, u) == {i \in DOMAIN store : store[i].user_id = u}

ListsByTool(r, rs) ==
    /\ r.ep = "chat"
    /\ rs.status = 200
    /\ r.llm.call.tool = "list_todos"
    /\ r.fault = "none"

(* C2 as stated: every list result of list_todos and of list_todos_handler
   for A carries exactly the todos whose user_id is A. *)
C2_ListIsExactlyOwn ==
    /\ (req.ep = "list" /\ resp.status = 200) =>
          RestIds(resp.data) = OwnedBy(todos, req.auth)
    /\ ListsByTool(req, resp) =>
          ToolIds(resp.tool[1].todos) = OwnedBy(todos, req.path)

(* C2 as amended: list_todos for A carries exactly the todos whose user_id is
   A; list_todos_handler for A carries exactly the todos whose user_id is A
   and whose completed flag equals the completed argument when one is given
   (all of A's todos when none is); neither ever carries a todo of B. *)
C2_ListIsOwnMatching ==
    /\ (req.ep = "list" /\ resp.status = 200) =>
          /\ RestIds(resp.data) = OwnedBy(todos, req.auth)
          /\ Len(resp.data) = Cardinality(OwnedBy(todos, req.auth))
          /\ \A i \in DOMAIN resp.data : resp.data[i].user_id = req.auth
    /\ ListsByTool(req, resp) =>
          /\ resp.tool[1].success
          /\ ToolIds(resp.tool[1].todos) =
                {i \in OwnedBy(todos, req.path) :
                    \/ req.llm.call.completed = {}
                    \/ todos[i].completed \in req.llm.call.completed}
          /\ ToolIds(resp.tool[1].todos) \subseteq OwnedBy(todos, req.path)

C2_Witness ==
    /\ ListsByTool(req, resp)
    /\ req.path = "A"
    /\ req.llm.call.completed = {TRUE}
    /\ \E i, k \in DOMAIN todos :
          /\ todos[i].user_id = "A" /\ todos[i].completed
          /\ todos[k].user_id = "B" /\ todos[k].completed
    /\ Len(resp.tool[1].todos) = 1

(* C3: for get, update, toggle-complete and delete (and the chat handlers
   get/update/delete) and every user A, the response for an id that another
   user owns is the response A would get if that id did not exist, and in
   both runs the table is left as it was.  The two runs are compared on
   every table the service is in between two requests. *)
SameAnswer(o1, o2, store1, store2) ==
    /\ o1.resp = o2.resp
    /\ o1.todos = store1
    /\ o2.todos = store2

SameResult(o1, o2, store1, store2) ==
    /\ o1.result = o2.result
    /\ o1.todos = store1
    /\ o2.todos = store2

C3_MissingAndForeignAlike ==
    \A a \in Users, i \in DOMAIN todos :
        (Idle /\ todos[i].user_id # a) =>
          LET gone == Remove(todos, i) IN
          /\ SameAnswer(get_todo(todos, a, a, i), get_todo(gone, a, a, i),
                        todos, gone)
          /\ get_todo(todos, a, a, i).resp.status = 404
          /\ \A ti \in OptTitles, d \in Descs :
                SameAnswer(update_todo(todos, a, a, i, ti, d, now),
                           update_todo(gone, a, a, i, ti, d, now),
                           todos, gone)
          /\ SameAnswer(toggle_todo_completion(todos, a, a, i, now),
                        toggle_todo_completion(gone, a, a, i, now),
                        todos, gone)
          /\ SameAnswer(delete_todo(todos, a, a, i),
                        delete_todo(gone, a, a, i), todos, gone)
          /\ \A f \in UUIDForms :
                LET s == [form |-> f, id |-> i] IN
                /\ SameResult(get_todo_handler(todos, a, s, "none"),
                              get_todo_handler(gone, a, s, "none"),
                              todos, gone)
                /\ SameResult(delete_todo_handler(todos, a, s, "none"),
                              delete_todo_handler(gone, a, s, "none"),
                              todos, gone)
                /\ \A u \in UpdateArgs :
                      SameResult(
                          update_todo_handler(todos, a, s, u.title,
                                              u.description, u.completed,
                                              "none"),
                          update_todo_handler(gone, a, s, u.title,
                                              u.description, u.completed,
                                              "none"),
                          todos, gone)

(* A has asked for a todo of B and, before that todo existed, could have
   asked for the same id: the last request is A's get of B's todo. *)
C3_Witness ==
    /\ req.ep = "get"
    /\ req.auth = "A"
    /\ NamesForeignTodo(req, todos)
    /\ resp = get_todo(Remove(todos, req.id), "A", "A", req.id).resp
    /\ \E j \in ReqIds : j \notin DOMAIN todos

(* C4: on every todo endpoint and on the chat and conversations endpoints, a
   request whose path user_id is not the authenticated user's id answers 403
   FORBIDDEN having run no statement against the todos or conversations, and
   leaves both tables as they were, whether or not the id it names exists. *)
Endpoints ==
    {"create", "list", "get", "update", "toggle", "delete", "chat",
     "conversations"}

C4_PathMismatchForbiddenFirst ==
    [][(Handles /\ req'.ep \in Endpoints /\ req'.auth # req'.path) =>
        /\ resp'.status = 403
        /\ resp'.code = "FORBIDDEN"
        /\ resp'.db = <<>>
        /\ resp'.data = <<>>
        /\ resp'.tool = <<>>
        /\ todos' = todos
        /\ convs' = convs
        /\ nextId' = nextId]_vars

C4_Witness ==
    /\ req.ep = "update"
    /\ req.auth = "A"
    /\ req.path = "B"
    /\ req.id \in DOMAIN todos
    /\ todos[req.id].user_id = "A"
    /\ req.title = "t2"
    /\ todos[req.id].title = "t1"
    /\ resp.status = 403

(* A token that is malformed, signed with another secret or under another
   algorithm, altered after it was signed, or whose exp is before t. *)
Tampered(token) ==
    \/ ~token.wf
    \/ token.sig.key # JWT_SECRET
    \/ token.alg # JWT_ALGORITHM
    \/ token.sig.alg # token.alg
    \/ token.sig.claims # token.claims

Expired(token, t) == token.claims.exp < t

(* C5: a token made by create_access_token(user_id, email) and verified
   strictly before issue time + JWT_EXPIRATION_HOURS yields a payload whose
   sub is str(user_id) and whose email is the email it was issued for. *)
C5_IssueVerifyRoundTrip ==
    \A i \in issued :
        (/\ req.ep = "verify"
         /\ req.token = i.token
         /\ now < i.at + JWT_EXPIRATION_HOURS) =>
            /\ resp.kind = "payload"
            /\ resp.payload.sub = str(i.user_id)
            /\ resp.payload.email = i.email

C5_Witness ==
    \E i \in issued :
        /\ req.ep = "verify"
        /\ req.token = i.token
        /\ i.user_id = "B"
        /\ now = i.at + JWT_EXPIRATION_HOURS - 1
        /\ resp.kind = "payload"
        /\ resp.payload.email = "b@x"

(* C6: for a malformed token, one signed with another secret or another
   algorithm, one altered after issue, and one whose expiry is in the past,
   verify_token returns None and lets no exception escape. *)
C6_BadTokenIsNone ==
    (/\ req.ep = "verify"
     /\ Tampered(req.token) \/ Expired(req.token, now)) =>
        resp.kind = "None"

C6_Witness ==
    \E i \in issued :
        /\ req.ep = "verify"
        /\ req.token \in Altered(i.token)
        /\ req.token.claims.sub # i.token.claims.sub
        /\ resp.kind = "None"

(* C7: a correctly signed token whose exp equals the current time is
   invalid: verify_token returns None for it and both get_current_user
   dependencies answer 401. *)
C7_ExpiryInstantIsInvalid ==
    (/\ req.ep \in {"verify", "dependencies", "middleware"}
     /\ ~Tampered(req.token)
     /\ req.token.claims.exp = now) =>
        IF req.ep = "verify" THEN resp.kind = "None" ELSE resp.status = 401

(* C8: a correctly signed, unexpired token without sub, without email, or
   with a sub that does not parse as a UUID is never authenticated by either
   get_current_user. *)
Incomplete(token) ==
    \/ token.claims.sub.form = "missing"
    \/ token.claims.email = None
    \/ ~ParsesAsUUID(token.claims.sub)

C8_IncompleteTokenRejected ==
    (/\ req.ep \in {"dependencies", "middleware"}
     /\ ~Tampered(req.token)
     /\ req.token.claims.exp > now
     /\ Incomplete(req.token)) =>
        resp.status = 401

(* C9: dependencies.get_current_user either returns the stored User whose id
   is the UUID the token's sub spells, or fails with 401 and the header
   WWW-Authenticate: Bearer; an invalid token, a missing or unparseable sub
   and a sub naming no stored user all fail that way. *)
C9_UserOfSubOr401 ==
    req.ep = "dependencies" =>
        LET sub == req.token.claims.sub
            fails == \/ Tampered(req.token)
                     \/ Expired(req.token, now)
                     \/ sub.form = "missing"
                     \/ ~ParsesAsUUID(sub)
                     \/ UUID(sub) \notin Users
        IN IF fails
           THEN /\ resp.status = 401
                /\ resp.headers = Bearer
                /\ resp.user = NoUser
           ELSE /\ resp.status = 200
                /\ resp.user.id = UUID(sub)
                /\ resp.user = [id |-> UUID(sub), email |-> Email(UUID(sub))]

C9_Witness ==
    /\ req.ep = "dependencies"
    /\ ~Tampered(req.token)
    /\ req.token.claims.exp > now
    /\ req.token.claims.sub = str(GhostUser)
    /\ resp.status = 401
    /\ resp.headers = Bearer

(* C10: the failure of dependencies.get_current_user for a valid token whose
   sub names no stored user is the failure it returns for a bad token: same
   status, headers and body. *)
C10_NoUserLikeBadToken ==
    (/\ req.ep = "dependencies"
     /\ ~Tampered(req.token)
     /\ ~Expired(req.token, now)
     /\ ParsesAsUUID(req.token.claims.sub)
     /\ UUID(req.token.claims.sub) \notin Users) =>
        resp = dependencies_get_current_user(Malformed, now)

(* C11: get_optional_current_user returns None, and does not fail the
   request, when no credential is supplied and when the token is invalid,
   expired or incomplete; it returns the user_id/email mapping only for a
   valid token. *)
C11_OptionalAuthNeverFails ==
    req.ep = "optional" =>
        LET valid == /\ req.header
                     /\ ~Tampered(req.token)
                     /\ req.token.claims.exp > now
                     /\ ~Incomplete(req.token)
        IN /\ resp.status = 200
           /\ ~valid => resp = ReturnsNone
           /\ resp # ReturnsNone =>
                /\ valid
                /\ resp.user.user_id = req.token.claims.sub
                /\ resp.user.email = req.token.claims.email

(* C12: create stores nothing for an empty title and for a title longer than
   255 characters; for a title of 1 to 255 characters and no description it
   stores exactly one new todo with that title, description unset, completed
   false and user_id the authenticated user's id, and returns it. *)
IsCreate(r) ==
    \/ r.ep = "create"
    \/ r.ep = "validation" /\ r.op = "create"

C12_CreateValidatesTitle ==
    [][(Handles /\ IsCreate(req')) =>
        LET title == req'.title
            n == IF title = None THEN 0 ELSE len(title)
        IN
        /\ (n = 0 \/ n > 255) =>
              /\ todos' = todos
              /\ resp'.status \notin {200, 201}
        /\ (/\ n >= 1 /\ n <= 255
            /\ req'.description = None
            /\ req'.auth = req'.path) =>
              /\ resp'.status = 201
              /\ DOMAIN todos' = DOMAIN todos \cup {nextId}
              /\ nextId \notin DOMAIN todos
              /\ \A i \in DOMAIN todos : todos'[i] = todos[i]
              /\ todos'[nextId].title = title
              /\ todos'[nextId].description = None
              /\ todos'[nextId].completed = FALSE
              /\ todos'[nextId].user_id = req'.auth
              /\ resp'.data = <<TodoResponse(todos', nextId)>>
        /\ req'.auth # req'.path => todos' = todos]_vars

C12_Witness ==
    /\ req.ep = "create"
    /\ req.title = "t2"
    /\ req.description = None
    /\ resp.status = 201
    /\ \E i \in DOMAIN todos :
          /\ todos[i].title = "t2"
          /\ todos[i].user_id = req.auth
          /\ resp.data = <<TodoResponse(todos, i)>>
    /\ Cardinality(DOMAIN todos) = 2

C12_WitnessRejected ==
    /\ req.ep = "validation"
    /\ req.op = "create"
    /\ req.title = ""
    /\ resp.status = 422

(* C13: a list result for a user is ordered by created_at descending; with a
   completed filter it carries exactly the user's todos with that flag value,
   without one all of the user's todos; when no todo matches it is an empty
   sequence returned with success.  Stated for list_todos and for
   list_todos_handler. *)
Matching(store, u, completed) ==
    {i \in OwnedBy(store, u) :
        completed # {} => store[i].completed \in completed}

NewestFirst(rows) ==
    \A i, j \in DOMAIN rows :
        i < j => rows[i].created_at >= rows[j].created_at

C13_ListOrderedAndFiltered ==
    /\ (req.ep = "list" /\ req.auth = req.path) =>
          /\ resp.status = 200
          /\ NewestFirst(resp.data)
          /\ RestIds(resp.data) = Matching(todos, req.auth, req.completed)
          /\ Len(resp.data) =
                Cardinality(Matching(todos, req.auth, req.completed))
    /\ ListsByTool(req, resp) =>
          LET rows == resp.tool[1].todos
              want == Matching(todos, req.path, req.llm.call.completed)
          IN /\ resp.tool[1].success
             /\ NewestFirst(rows)
             /\ ToolIds(rows) = want
             /\ Len(rows) = Cardinality(want)

(* C14: a successful update of an owned todo, by update_todo or by
   update_todo_handler, sets each supplied field (title, description) to the
   supplied value, leaves every omitted field and user_id, created_at and
   completed as they were, sets updated_at to the current time even when no
   field is supplied, and changes no other row.  Evaluated for every owned
   todo of every table the service is in between two requests. *)
Updated(old, new, title, description, t) ==
    /\ new.title = IF title # None THEN title ELSE old.title
    /\ new.description =
          IF description # None THEN description ELSE old.description
    /\ new.user_id = old.user_id
    /\ new.created_at = old.created_at
    /\ new.completed = old.completed
    /\ new.updated_at = t

OnlyRowChanged(store, store2, i) ==
    /\ DOMAIN store2 = DOMAIN store
    /\ \A k \in DOMAIN store \ {i} : store2[k] = store[k]

C14_UpdateReplacesSuppliedOnly ==
    \A a \in Users, i \in DOMAIN todos :
        (Idle /\ todos[i].user_id = a) =>
          /\ \A ti \in OptTitles, d \in Descs :
                LET o == update_todo(todos, a, a, i, ti, d, now) IN
                /\ o.resp.status = 200
                /\ OnlyRowChanged(todos, o.todos, i)
                /\ Updated(todos[i], o.todos[i], ti, d, now)
          /\ \A f \in UUIDForms, u \in UpdateArgs :
                LET o == update_todo_handler(todos, a, [form |-> f, id |-> i],
                                             u.title, u.description,
                                             u.completed, "none")
                IN /\ o.result.success
                   /\ OnlyRowChanged(todos, o.todos, i)
                   /\ Updated(todos[i], o.todos[i], u.title, u.description,
                              now)

(* C15: a successful toggle_todo_completion of an owned todo flips completed
   and leaves title, description, user_id and created_at as they were; a
   second toggle with no mutation in between returns completed to its
   original value; and each toggle leaves updated_at strictly later than it
   was. *)
C15_ToggleFlipsAndAdvances ==
    [][(Handles /\ req'.ep = "toggle" /\ resp'.status = 200) =>
        LET i == req'.id
            again == toggle_todo_completion(todos', req'.auth, req'.path, i,
                                            now')
        IN /\ todos[i].user_id = req'.auth
           /\ OnlyRowChanged(todos, todos', i)
           /\ todos'[i].completed = ~todos[i].completed
           /\ todos'[i].title = todos[i].title
           /\ todos'[i].description = todos[i].description
           /\ todos'[i].user_id = todos[i].user_id
           /\ todos'[i].created_at = todos[i].created_at
           /\ again.resp.status = 200
           /\ again.todos[i].completed = todos[i].completed
           /\ todos'[i].updated_at > todos[i].updated_at]_vars

(* C16: delete is a hard delete.  A delete by the owner that reports success
   removes exactly that row; an id that was allocated and is no longer in the
   table never comes back; every list result carries only rows of the table;
   every later get, update, toggle-complete or delete naming such an id (and
   the chat get, update and delete tools, when the session answers) reports
   not found; and a delete that reports not found removes nothing. *)
ToolNotFound ==
    {"Todo not found or you don't have permission to view it",
     "Todo not found or you don't have permission to update it",
     "Todo not found or you don't have permission to delete it"}

CallsTool(r, tools) ==
    /\ r.ep = "chat"
    /\ r.llm.call.tool \in tools

C16_DeleteIsHard ==
    [][/\ \A i \in 1..(nextId - 1) :
             i \notin DOMAIN todos => i \notin DOMAIN todos'
       /\ (Handles /\ req'.ep = "delete") =>
             /\ resp'.status = 200 =>
                   /\ req'.id \in DOMAIN todos
                   /\ todos[req'.id].user_id = req'.auth
                   /\ todos' = Remove(todos, req'.id)
             /\ resp'.status # 200 => todos' = todos
       /\ (Handles /\ CallsTool(req', {"delete_todo"}) /\ resp'.status = 200) =>
             LET r == resp'.tool[1]
                 s == req'.llm.call.todo_id
             IN /\ r.success =>
                      /\ UUID(s) \in DOMAIN todos
                      /\ todos[UUID(s)].user_id = req'.path
                      /\ todos' = Remove(todos, UUID(s))
                /\ ~r.success => todos' = todos
       /\ (/\ Handles
           /\ req'.ep \in SingleOps
           /\ req'.auth = req'.path
           /\ req'.id \notin DOMAIN todos) =>
             /\ resp'.status = 404
             /\ todos' = todos
       /\ (/\ Handles
           /\ CallsTool(req', {"get_todo", "update_todo", "delete_todo"})
           /\ resp'.status = 200
           /\ req'.fault = "none"
           /\ ParsesAsUUID(req'.llm.call.todo_id)
           /\ UUID(req'.llm.call.todo_id) \notin DOMAIN todos) =>
             /\ ~resp'.tool[1].success
             /\ resp'.tool[1].error \in ToolNotFound
             /\ todos' = todos
       /\ (Handles /\ req'.ep = "list" /\ resp'.status = 200) =>
             RestIds(resp'.data) \subseteq DOMAIN todos
       /\ (Handles /\ ListsByTool(req', resp')) =>
             ToolIds(resp'.tool[1].todos) \subseteq DOMAIN todos]_vars

(* A todo was deleted, and a later get of its id by the user who owned it is
   answered 404. *)
C16_Witness ==
    /\ req.ep = "get"
    /\ req.auth = req.path
    /\ req.id < nextId
    /\ req.id \notin DOMAIN todos
    /\ resp.status = 404
    /\ DOMAIN todos # {}

(* C17: whatever the tool call the decision step picks, whatever its
   arguments and whichever session call fails, a chat request of user u
   changes no row of another user, creates only rows whose user_id is u and
   returns only rows whose user_id is u; every argument of a tool call is a
   property its schema in ALL_TOOLS declares, and no tool of ALL_TOOLS
   declares a property that names an owner. *)
OwnerArgs == {"user_id", "owner_id", "owner", "user"}

ViewId(v) == UUID(IF "id" \in DOMAIN v THEN v.id ELSE v.todo_id)

TouchesOnly(store, store2, views, u) ==
    /\ \A i \in DOMAIN store :
          store[i].user_id # u => (i \in DOMAIN store2 /\ store2[i] = store[i])
    /\ \A i \in DOMAIN store2 \ DOMAIN store : store2[i].user_id = u
    /\ \A k \in DOMAIN views :
          LET i == ViewId(views[k]) IN
          \/ i \in DOMAIN store /\ store[i].user_id = u
          \/ i \in DOMAIN store2 /\ store2[i].user_id = u

C17_ToolsTouchOnlyOwnTodos ==
    [][(Handles /\ req'.ep = "chat") =>
            /\ \A tool \in DOMAIN ALL_TOOLS :
                  ALL_TOOLS[tool] \cap OwnerArgs = {}
            /\ req'.llm.call # NoCall =>
                  (DOMAIN req'.llm.call) \ {"tool"}
                      \subseteq ALL_TOOLS[req'.llm.call.tool]
            /\ TouchesOnly(todos, todos',
                           IF Len(resp'.tool) = 1 THEN resp'.tool[1].todos
                           ELSE <<>>, req'.auth)
            /\ req'.auth # req'.path => todos' = todos]_vars

(* User A's delete_todo tool call names a todo of B: it fails and the row is
   still there. *)
C17_Witness ==
    /\ CallsTool(req, {"delete_todo"})
    /\ req.auth = "A"
    /\ resp.status = 200
    /\ ParsesAsUUID(req.llm.call.todo_id)
    /\ UUID(req.llm.call.todo_id) \in DOMAIN todos
    /\ todos[UUID(req.llm.call.todo_id)].user_id = "B"
    /\ ~resp.tool[1].success

(* C18: whatever tool call the decision step picks for whichever user and
   whichever session call fails, the handler returns a mapping with a
   boolean success; when success is false its error names the cause (the
   todo_id is not a UUID, no todo of the user has that id, or the session
   raised) and the table is as it was before the call. *)
SessionErrors ==
    {"Failed to create todo: session error",
     "Failed to list todos: session error",
     "Failed to update todo: session error",
     "Failed to delete todo: session error",
     "Failed to get todo: session error"}

NamesCause(store, u, c, error) ==
    IF "todo_id" \in DOMAIN c /\ ~ParsesAsUUID(c.todo_id)
    THEN error = "Invalid todo ID format"
    ELSE \/ error \in SessionErrors
         \/ /\ error \in ToolNotFound
            /\ "todo_id" \in DOMAIN c
            /\ SelectOwned(store, UUID(c.todo_id), u) = 0

C18_HandlersReportFailureAsData ==
    [][(Handles /\ req'.ep = "chat" /\ Len(resp'.tool) = 1) =>
        LET r == resp'.tool[1] IN
        /\ r.success \in BOOLEAN
        /\ req'.fault = "none" => (r.success \/ r.error \notin SessionErrors)
        /\ ~r.success =>
              /\ NamesCause(todos, req'.path, req'.llm.call, r.error)
              /\ todos' = todos]_vars

(* C19: for the same owner, the same table and the same arguments, each chat
   tool handler accepts exactly the inputs its REST endpoint accepts, and
   both leave the same table behind (same rows, titles, descriptions,
   completed flags and timestamps); get and list return the same todos.
   The REST side is the endpoint behind its request schema.  Evaluated on
   every table the service is in between two requests. *)
Accepted(o) == o.resp.status \in {200, 201}

rest_create(store, newId, u, title, description, t) ==
    IF TodoCreate(title) THEN create_todo(store, newId, u, u, title,
                                          description, t)
    ELSE Out(RequestValidationError, store)

rest_update(store, u, id, title, description, t) ==
    IF TodoUpdate(title) THEN update_todo(store, u, u, id, title,
                                          description, t)
    ELSE Out(RequestValidationError, store)

SameEffect(o, h) ==
    /\ Accepted(o) <=> h.result.success
    /\ o.todos = h.todos

C19_ChatToolsMatchRest ==
    Idle =>
      \A u \in Users :
        /\ \A ti \in BodyTitles \ {None}, d \in Descs :
              SameEffect(rest_create(todos, nextId, u, ti, d, now),
                         create_todo_handler(todos, nextId, u, ti, d, now,
                                             "none"))
        /\ \A i \in ReqIds, ti \in BodyTitles, d \in Descs :
              SameEffect(rest_update(todos, u, i, ti, d, now),
                         update_todo_handler(todos, u, str(i), ti, d, {},
                                             "none"))
        /\ \A i \in ReqIds :
              /\ SameEffect(delete_todo(todos, u, u, i),
                            delete_todo_handler(todos, u, str(i), "none"))
              /\ SameEffect(get_todo(todos, u, u, i),
                            get_todo_handler(todos, u, str(i), "none"))
        /\ \A c \in OptBools :
              /\ list_todos_rows(todos, u)
                    = list_todos_handler_rows(todos, u, c)

(* C20: the chat endpoint answers 403 when the authenticated user is not the
   path user_id, whatever the conversation_id; otherwise 400, without
   calling process_message, for every supplied conversation_id that is not a
   UUID; otherwise 404 when the conversation it names is not one of the
   user's; otherwise 500 when process_message reports another failure; and
   200, with the tool calls, only when process_message reports success. *)
Supplied(s) == s.form # "absent"

C20_ChatStatusCodes ==
    req.ep = "chat" =>
        LET cid == req.conversation_id
            own == /\ ParsesAsUUID(cid)
                   /\ UUID(cid) \in DOMAIN convs
                   /\ convs[UUID(cid)] = req.path
        IN IF req.auth # req.path
           THEN resp.status = 403 /\ resp.db = <<>>
           ELSE IF Supplied(cid) /\ ~ParsesAsUUID(cid)
           THEN resp.status = 400 /\ resp.db = <<>>
           ELSE IF Supplied(cid) /\ ~own
           THEN resp.status = 404
           ELSE IF ~req.llm.ok
           THEN resp.status = 500
           ELSE /\ resp.status = 200
                /\ Len(resp.tool) = IF req.llm.call = NoCall THEN 0 ELSE 1

(* The password rule of the signup contract: at least 8 characters with an
   uppercase letter, a lowercase letter and a digit. *)
MeetsPasswordRule(p) == password_len(p) >= 8 /\ p.upper > 0 /\ p.lower > 0 /\ p.digit > 0

IsSignup == Idle /\ req'.ep = "signup"

(* C21: under every signup request schema (UserCreate, SignUpRequest,
   UserSignup) a signup whose password breaks the rule (fewer than 8
   characters, or no uppercase letter, or no lowercase letter, or no digit)
   is answered with a validation error and leaves the users table as it
   was. *)
C21_SignupRejectsWeakPasswords ==
    [][(IsSignup /\ ~MeetsPasswordRule(req'.password)) => (resp'.status = 422 /\ users' = users)]_vars

BothDone == DOMAIN txs = Sessions /\ \A p \in Sessions : txs[p].pc = "done"

(* One request run alone against the store, by the REST handler. *)
run(store, op) ==
    CASE op.kind = "update" -> update_todo(store, "A", "A", 1, op.title, op.description, now).todos
      [] op.kind = "toggle" -> toggle_todo_completion(store, "A", "A", 1, now).todos
      [] op.kind = "delete" -> delete_todo(store, "A", "A", 1).todos

(* C22: when two concurrent mutating requests on the same todo (update,
   toggle-complete or delete, each a select followed by a commit) have both
   finished, under every interleaving of their selects and commits, the
   stored todos equal the result of running the two requests one after the
   other in one of the two orders. *)
C22_ConcurrentRequestsSerialize ==
    BothDone => todos \in {run(run(SeedTodos, txs[1].op), txs[2].op), run(run(SeedTodos, txs[2].op), txs[1].op)}

(* The codes of the error payloads built by error_response(code, message)
   and by the chat endpoints' detail dictionaries. *)
ErrorCodes == {"FORBIDDEN", "NOT_FOUND", "INVALID_INPUT", "INTERNAL_ERROR"}

IsErrorResponse == "status" \in DOMAIN resp /\ resp.status \in {400, 401, 403, 404, 500}

(* C23: every error response (401 from the authentication dependencies, 403
   from the ownership checks, 400/404/500 from the chat and todo endpoints)
   has a payload with a code field and a non-empty message, and the code is
   one of the fixed constants. *)
C23_ErrorPayloadsCarryCode ==
    IsErrorResponse => ("code" \in DOMAIN resp /\ resp.code \in ErrorCodes /\ "message" \in DOMAIN resp /\ resp.message # "")

IsListConversations == req.ep = "conversations"

(* C24: list_conversations answers 403 whenever the path user differs from
   the authenticated user, whatever limit and offset are; for the caller's
   own path it answers 400 to every limit outside 1..100 and every negative
   offset without running the conversation query; and for limit in 1..100
   with offset >= 0 it runs the query with that limit and offset and
   returns conversations of the path user only. *)
C24_ListConversationsValidates ==
    IsListConversations =>
        /\ req.auth # req.path => (resp.status = 403 /\ resp.code = "FORBIDDEN" /\ resp.db = <<>>)
        /\ (req.auth = req.path /\ (req.limit < 1 \/ req.limit > 100 \/ req.offset < 0)) => (resp.status = 400 /\ resp.code = "INVALID_INPUT" /\ resp.db = <<>>)
        /\ (req.auth = req.path /\ req.limit \in 1..100 /\ req.offset >= 0) =>
            /\ resp.status = 200
            /\ resp.db = <<"select_conversations">>
            /\ resp.data = conversations_of(convs, req.path, req.limit, req.offset)
            /\ \A i \in DOMAIN resp.data : resp.data[i].user_id = str(req.path)

(* A request for another user's conversations with an out-of-range limit
   was answered 403. *)
C24_Witness ==
    /\ IsListConversations
    /\ req.auth # req.path
    /\ req.limit > 100
    /\ req.offset < 0
    /\ resp.status = 403

(* The caller's own conversations were listed with the largest limit. *)
C24_WitnessListed ==
    /\ IsListConversations
    /\ req.auth = req.path
    /\ req.limit = 100
    /\ resp.status = 200
    /\ Len(resp.data) > 0

(* C25: for every signup payload its schema accepts, the response carries
   no password-derived field: a user in the response has only the fields
   id, email, created_at and updated_at, and the whole response is the one
   the same signup would have received with any other accepted password. *)
C25_ResponsesHidePassword ==
    [][(IsSignup /\ SchemaAccepts(req'.schema, req'.email, req'.password)) =>
        /\ resp'.status = 201 => DOMAIN resp'.data \subseteq {"id", "email", "created_at", "updated_at"}
        /\ \A other \in Passwords : SchemaAccepts(req'.schema, req'.email, other) => signup(users, req'.schema, req'.rschema, req'.email, other, now).resp = resp']_vars

(* A signup was accepted, its password was stored hashed, and the response
   was built by the user response schema with the timestamps. *)
C25_Witness ==
    /\ req.ep = "signup"
    /\ resp.status = 201
    /\ req.rschema = "user"
    /\ req.email \in DOMAIN users
    /\ users[req.email].password_hash = hash_password(req.password)
    /\ resp.data.id = users[req.email].id

OwnedIds(store, u) == {i \in DOMAIN store : store[i].user_id = u}

ReadOps == {"get", "list"}

(* C26: a REST or chat request authenticated as user A, whether it succeeds
   or fails, leaves every todo of every other user B as it was and leaves B
   with the same set of todos; no step changes the user_id of a todo that
   exists before and after it; a REST get or list changes nothing that is
   stored, and a get_todo or list_todos tool call changes no todo and
   allocates no id. *)
C26_OtherUsersTodosUnchanged ==
    [][/\ \A i \in DOMAIN todos \cap DOMAIN todos' : todos'[i].user_id = todos[i].user_id
       /\ (Handles /\ "auth" \in DOMAIN req') =>
            /\ \A B \in Users \ {req'.auth} :
                  /\ OwnedIds(todos', B) = OwnedIds(todos, B)
                  /\ \A i \in OwnedIds(todos, B) : todos'[i] = todos[i]
            /\ req'.ep \in ReadOps => (todos' = todos /\ nextId' = nextId /\ convs' = convs)
            /\ CallsTool(req', {"get_todo", "list_todos"}) => (todos' = todos /\ nextId' = nextId)]_vars

(* User A deleted a todo of their own while user B had one. *)
C26_Witness ==
    /\ req.ep = "delete"
    /\ req.auth = "A"
    /\ req.path = "A"
    /\ resp.status = 200
    /\ req.id \notin DOMAIN todos
    /\ OwnedIds(todos, "B") # {}

(* C27: UserCreate.validate_password accepts a password exactly when
   is_valid_password returns True for it, for passwords of every length,
   those shorter than 8 and longer than 128 characters included. *)
C27_PasswordChecksAgree ==
    req.ep = "password" => (resp.validate_password <=> resp.is_valid_password)

====
